---- MODULE Spec2Model ----
(***************************************************************************)
(* StreamCode: the encode CLI (encode.py) as a state machine.  One run of  *)
(* main() is a process walking through its blocking points (subprocess     *)
(* calls and file system calls); the job directory <outdir>/<base> is the  *)
(* shared state.  Resolution keys, representation ids and directory names  *)
(* are decimal strings in the program; they are modelled by the numbers    *)
(* they spell (str and int are inverse on them).  Beside the runs stand the *)
(* progress translator of utils/ffmpegtools.py (run) and the GUI's cancel  *)
(* and close handlers of main.py, each with a specification of its own.    *)
(***************************************************************************)
EXTENDS Integers, Sequences, FiniteSets, TLC

\* ------------------------------------------------------------------ bounds
\* longest --renditions list drawn as an input
MaxReq == 2
\* media segments the encoder writes per representation
SegCount == 1
\* write() calls that json.dump + close issue for one sidecar
JsonParts == 2

\* lines of encoder output drawn for the progress translator
MaxLines == 2

\* ------------------------------------------------------- program constants
\* total_ms = None: probe_duration_ms found no duration
NoTotal == -1
AudioBandwidth == 128000
FallbackW == 1920
FallbackH == 1080

RunIds == {1, 2}

\* RES_MAP: key -> (width, height, bitrate)
ResKeys == {2160, 1440, 1080, 720, 480}
RES_MAP ==
  [k \in ResKeys |->
     CASE k = 2160 -> <<3840, 2160, 12000000>>
       [] k = 1440 -> <<2560, 1440, 8000000>>
       [] k = 1080 -> <<1920, 1080, 5000000>>
       [] k = 720  -> <<1280, 720, 2800000>>
       [] k = 480  -> <<854, 480, 1400000>>]

\* keys drawn for --renditions: the default ones and an unknown one
ReqKeys == {1080, 720, 480, 9999}

\* the input files of the runs: what ffprobe reports for them.  w = 0 stands
\* for a file whose size probe fails, dar = "" for one whose aspect probe
\* fails; audio tells whether the file has an audio stream (a:0? maps it).
Media ==
  { [w |-> 1920, h |-> 1080, dar |-> "16:9", audio |-> TRUE],
    [w |-> 640,  h |-> 480,  dar |-> "4:3",  audio |-> TRUE],
    [w |-> 1080, h |-> 1920, dar |-> "9:16", audio |-> FALSE],
    [w |-> 2048, h |-> 858,  dar |-> "",     audio |-> TRUE],
    [w |-> 0,    h |-> 0,    dar |-> "4:3",  audio |-> TRUE],
    [w |-> 0,    h |-> 0,    dar |-> "",     audio |-> TRUE] }

\* input paths: a directory, and a file name split at its last dot
InputPaths ==
  { [dir |-> "in",  stem |-> "clip",  ext |-> "mp4"],
    [dir |-> "in",  stem |-> "clip",  ext |-> "mkv"],
    [dir |-> "in2", stem |-> "clip",  ext |-> "mp4"],
    [dir |-> "in",  stem |-> "other", ext |-> "mp4"] }

\* ------------------------------------------------------------ pure helpers
\* base = inp.stem; workdir = out_root / base
JobDir(out_root, inp) == <<out_root, inp.stem>>

\* Python's round() of the rational n/d (d > 0, n >= 0): nearest integer,
\* ties to the even one
RoundHalfEven(n, d) ==
  LET q == n \div d
      r2 == 2 * (n % d)
  IN  IF r2 < d THEN q
      ELSE IF r2 > d THEN q + 1
      ELSE IF q % 2 = 0 THEN q ELSE q + 1

even(x) == IF x % 2 = 0 THEN x ELSE x - 1

\* width of a rendition of height H in source mode:
\* even(int(round(H * ar))), ar = src_w / src_h, or 16/9 when src_h = 0
SourceWidth(H, src_w, src_h) ==
  IF src_h # 0 THEN even(RoundHalfEven(H * src_w, src_h))
  ELSE even(RoundHalfEven(H * 16, 9))

\* one ladder entry (w, h, br, name); the name "<h>p" is determined by h
Target(w, h, br) == [w |-> w, h |-> h, br |-> br]

\* the entries build_targets appends, in request order
RECURSIVE AppendTargets(_, _, _, _)
AppendTargets(renditions, mode, src_w, src_h) ==
  IF renditions = <<>> THEN <<>>
  ELSE LET r == Head(renditions)
           rest == AppendTargets(Tail(renditions), mode, src_w, src_h)
       IN  IF r \notin ResKeys THEN rest
           ELSE IF mode = "source"
                THEN <<Target(SourceWidth(RES_MAP[r][2], src_w, src_h),
                              RES_MAP[r][2], RES_MAP[r][3])>> \o rest
                ELSE <<Target(RES_MAP[r][1], RES_MAP[r][2], RES_MAP[r][3])>>
                       \o rest

\* list.sort(key = height, reverse = True): stable, equal heights keep their
\* order.  Insertion of x behind the entries that are >= in height.
RECURSIVE InsertDesc(_, _)
InsertDesc(x, s) ==
  IF s = <<>> THEN <<x>>
  ELSE IF Head(s).h >= x.h THEN <<Head(s)>> \o InsertDesc(x, Tail(s))
       ELSE <<x>> \o s

RECURSIVE SortDesc(_)
SortDesc(s) ==
  IF s = <<>> THEN <<>>
  ELSE LET front == SubSeq(s, 1, Len(s) - 1)
       IN  InsertDesc(s[Len(s)], SortDesc(front))

build_targets(renditions, mode, src_w, src_h) ==
  SortDesc(AppendTargets(renditions, mode, src_w, src_h))

\* ---------------------------------------------------------- filter graph
\* the labels of the graph: [v<i>] is <<"v", i>>, [v<i>o] is <<"vo", i>>
\* build_filter_complex_for_targets: "[0:v]split=n[v0]..[v<n-1>]", then one
\* chain "[v<i>]scale=w=<w>:h=<h>:...[v<i>o]" per ladder entry, and the
\* output labels in ladder order
build_filter_complex_for_targets_reversed(ts) ==
  LET n == Len(ts) IN
  [fc |-> [split |-> <<[from |-> "0:v", n |-> n,
                        to |-> [i \in 1..n |-> <<"v", i - 1>>]]>>,
           chains |-> [i \in 1..n |->
                         [from |-> <<"v", i - 1>>, w |-> ts[n + 1 - i].w,
                          h |-> ts[n + 1 - i].h, to |-> <<"vo", i - 1>>]]],
   out_labels |-> [i \in 1..n |-> <<"vo", i - 1>>]]
build_filter_complex_for_targets(ts) ==
  LET n == Len(ts) IN
  [fc |-> [split |-> <<[from |-> "0:v", n |-> n,
                        to |-> [i \in 1..n |-> <<"v", i - 1>>]]>>,
           chains |-> [i \in 1..n |->
                         [from |-> <<"v", i - 1>>, w |-> ts[i].w,
                          h |-> ts[i].h, to |-> <<"vo", i - 1>>]]],
   out_labels |-> [i \in 1..n |-> <<"vo", i - 1>>]]

\* int(br * 1.07): the product truncated to an integer
MaxRate(br) == (br * 107) \div 100

\* add_stream_opts_one: -b:v, -maxrate, -bufsize of one HLS rendition
add_stream_opts_one(br) ==
  LET maxr == MaxRate(br) IN [br |-> br, maxrate |-> maxr, bufsize |-> maxr * 2]

\* the -b:v:<i>, -maxrate:v:<i>, -bufsize:v:<i> of one DASH rendition
DashRatesNoHeadroom(br) ==
  [br |-> br, maxrate |-> br, bufsize |-> br * 2]
DashRates(br) ==
  LET maxr == MaxRate(br) IN [br |-> br, maxrate |-> maxr, bufsize |-> maxr * 2]

\* the -map options of the DASH command, in order: per ladder entry the
\* scaled video label ("v") and the optional first audio stream a:0? ("a")
DashMaps(ts) == [i \in 1..(2 * Len(ts)) |-> IF i % 2 = 1 THEN "v" ELSE "a"]

\* the streams the encoder gets from the maps: a:0? maps nothing when the
\* input has no audio stream
DashStreams(maps, audio) ==
  LET Mapped(m) == m = "v" \/ audio IN SelectSeq(maps, Mapped)

\* ------------------------------------------------------------ HLS master
\* the lines write_hls_master writes: two header lines, then per ladder
\* entry a stream line (BANDWIDTH, RESOLUTION) and the playlist path
\* "<h>/index.m3u8" (uri holds the directory h)
RECURSIVE MasterEntries(_)
MasterEntries(targets) ==
  IF targets = <<>> THEN <<>>
  ELSE LET t == Head(targets)
       IN  << [tag |-> "#EXT-X-STREAM-INF", bw |-> t.br + AudioBandwidth,
               w |-> t.w, h |-> t.h, uri |-> 0],
              [tag |-> "uri", bw |-> 0, w |-> 0, h |-> 0, uri |-> t.h] >>
           \o MasterEntries(Tail(targets))

HeaderLine(tag) == [tag |-> tag, bw |-> 0, w |-> 0, h |-> 0, uri |-> 0]

\* a plausible slip: the video bitrate alone, without the audio estimate
write_hls_master_video_only(targets) ==
  <<HeaderLine("#EXTM3U"), HeaderLine("#EXT-X-VERSION:3")>>
    \o [i \in 1..(2 * Len(targets)) |->
         IF i % 2 = 1
         THEN [MasterEntries(targets)[i] EXCEPT !.bw = targets[(i + 1) \div 2].br]
         ELSE MasterEntries(targets)[i]]

write_hls_master(targets) ==
  <<HeaderLine("#EXTM3U"), HeaderLine("#EXT-X-VERSION:3")>>
    \o MasterEntries(targets)

\* the segment files the encoder writes for one representation: 0 is
\* init.m4s, k is chunk_<k>.m4s
SegNames == 0..SegCount

\* id ffmpeg gives the i-th video representation (i from 1): its stream
\* index.  Streams are mapped v, a, v, a, ... when the input has audio.
VideoId(i, audio) == IF audio THEN 2 * (i - 1) ELSE i - 1

\* ------------------------------------------------------------------ state
VARIABLES
  runs,        \* the encode processes of this behaviour
  args,        \* per run: the command line and the input file
  pc,          \* per run: position in main()
  exitCode,    \* per run: process exit code, -1 while running
  out,         \* per run: lines printed so far (stdout and stderr)
  spawned,     \* per run: subprocesses launched so far, in order
  src,         \* per run: (src_w, src_h) as probed
  dar,         \* per run: dar_str
  targets,     \* per run: the ladder
  tracks,      \* per run: number of subtitle tracks
  posterRel,   \* per run: make_poster returned a path
  sources,     \* per run: keys of the sources dict
  mapping,     \* per run: (rid, h) pairs of the DASH rewrite
  moveIdx,     \* per run: next mapping entry to move
  wjFile,      \* per run: sidecar being written by write_json
  wjFd,        \* per run: inode of the open temporary file
  wjPart,      \* per run: next part to write
  workdirExists, \* <outdir>/<base> exists
  posterFile,  \* poster.jpg exists
  hlsExists,   \* HLS/ exists
  hlsRend,     \* HLS/<h>/: the run whose segments it holds, 0 when empty
  hlsKeys,     \* key files under HLS/: 0 for enc.key, h for _key_<h>.txt
  hlsMaster,   \* HLS/<base>.m3u8: its lines, <<>> when absent
  dashExists,  \* DASH/ exists
  dashDirs,    \* DASH/<name>/: file name -> (run, stream) that wrote it
  mpd,         \* DASH/<base>.mpd: video representations, <<>> when absent
  files,       \* sidecar paths -> inode, 0 when absent
  inodes,      \* inode -> cells written
  nextInode,   \* inodes allocated so far
  lastRead,    \* what the last reader of a final sidecar path observed
  consumed,    \* per run: what the consumer of JOB_DONE found in player.json
  workdir,     \* per run: the job directory main() computed, <<>> before
  hlsCmd,      \* per run: the options of the HLS encoder command
  dashCmd,     \* per run: the options of the DASH encoder command
  playerMeta,  \* per run: keys of "sources" as serialised into player.json
  endView,     \* per run: the manifests and directories it left at JOB_DONE
  trProgress,  \* translator: the progress dict (total_ms, base, label)
  trIn,        \* translator: the lines of the encoder's output
  trPos,       \* translator: lines read so far
  trOut,       \* translator: what it printed
  trPc,        \* translator: position in run()
  signals,     \* per run: signals the GUI sent to the encode process
  orphan,      \* per run: encoder left running by a terminated encode process
  guiOpen,     \* the GUI window is open
  jobs,        \* GUI: base -> the entry of self.jobs (status, process)
  procs,       \* GUI: the encode processes it spawned, in spawn order
  logQueue,    \* GUI: log_queue, (base, line) pairs
  history,     \* GUI: the history records written, (base, process)
  controls,    \* GUI: the input controls are enabled
  outDirs,     \* bases whose <out_root>/<base> exists
  playerJson,  \* bases whose job directory holds player.json
  wOpts,       \* watcher: the options it was started with
  wPc,         \* watcher: position in run() and _start_job_for_path
  wPath,       \* watcher: the path it is starting a job for
  seen,        \* watcher: _seen, path -> (size, hits)
  processed,   \* watcher: _processed
  sizes,       \* the sizes of the files in the watched folder
  enqueued,    \* per path: "[watcher] enqueue" lines logged
  started,     \* paths the watcher spawned an encode process for
  polled       \* per path: the sizes its latest polls found

procVars == <<runs, args, pc, exitCode, out, spawned>>
jobVars == <<src, dar, targets, tracks, posterRel, sources>>
dashVars == <<mapping, moveIdx>>
wjVars == <<wjFile, wjFd, wjPart>>
hlsFs == <<hlsExists, hlsRend, hlsKeys, hlsMaster>>
dashFs == <<dashExists, dashDirs, mpd>>
jsonFs == <<files, inodes, nextInode>>
readVars == <<lastRead, consumed>>
histVars == <<workdir, hlsCmd, dashCmd, playerMeta, endView>>
progVars == <<trProgress, trIn, trPos, trOut, trPc>>
guiVars == <<signals, orphan, guiOpen>>
mgrVars == <<jobs, procs, logQueue, history, controls, outDirs, playerJson>>
watchVars ==
  <<wOpts, wPc, wPath, seen, processed, sizes, enqueued, started, polled>>
extVars == <<progVars, guiVars, mgrVars, watchVars>>
vars == <<procVars, jobVars, dashVars, wjVars, workdirExists, posterFile,
          hlsFs, dashFs, jsonFs, readVars, histVars, extVars>>

SidecarPaths == {"job.json", "job.json.tmp", "player.json", "player.json.tmp"}
FinalPaths == {"job.json", "player.json"}
TmpOf(path) == IF path = "job.json" THEN "job.json.tmp" ELSE "player.json.tmp"
InodeIds == 1..(2 * Cardinality(RunIds))

\* requested lists: every sequence of at most MaxReq keys
ReqLists == UNION {[1..n -> ReqKeys] : n \in 0..MaxReq}

SubsOptions == {"none", "srt", "extract"}

AllArgs ==
  [inputExists : BOOLEAN, renditions : ReqLists, mode : {"source", "fixed"},
   hls : BOOLEAN, dash : BOOLEAN, encrypt : BOOLEAN, subs : SubsOptions,
   media : Media, input : InputPaths, outdir : {"out"}]

\* one run: every list, policy, packager choice and input file without
\* options, and every option on one list and input file
ClipMp4 == [dir |-> "in", stem |-> "clip", ext |-> "mp4"]

SpecArgs ==
  { a \in AllArgs : ~a.encrypt /\ a.subs = "none" /\ a.input = ClipMp4 }
    \cup
  { a \in AllArgs : /\ a.inputExists /\ a.renditions = <<720>>
                    /\ a.mode = "source" /\ a.media.w = 1920
                    /\ a.input = ClipMp4 }

\* two runs into the same output root
ConcArgs ==
  { a \in AllArgs : /\ a.renditions \in {<<720>>, <<9999>>}
                    /\ a.mode = "source" /\ (a.hls \/ a.dash)
                    /\ a.encrypt = a.hls /\ a.subs = "none"
                    /\ a.media.w = 1920
                    /\ (~a.inputExists =>
                          a.renditions = <<720>> /\ a.hls /\ a.dash) }

IdleArgs ==
  [inputExists |-> FALSE, renditions |-> <<>>, mode |-> "source",
   hls |-> FALSE, dash |-> FALSE, encrypt |-> FALSE, subs |-> "none",
   media |-> CHOOSE m \in Media : m.w = 0 /\ m.dar = "",
   input |-> ClipMp4, outdir |-> "out"]

NoGraph == [split |-> <<>>, chains |-> <<>>]
NoCmd ==
  [maps |-> <<>>, adaptation_sets |-> <<>>, fc |-> NoGraph, labels |-> <<>>,
   rates |-> <<>>]
NoView == [master |-> <<>>, mpd |-> <<>>, hlsDirs |-> {}, dashDirs |-> {}]

\* ------------------------------------------------------ GUI: domains
MaxProcs == 2
MaxSize == 2
StableHits == 3
NoSize == -1

\* base = os.path.splitext(os.path.basename(path))[0]
Base(path) == path.stem
Bases == {Base(p) : p \in InputPaths}

\* the files the user has put on the queue table
QueuePaths == {ClipMp4}

\* the video files of the watched folder: the same file, dropped there
FolderFiles == {ClipMp4}

Sizes == 1..MaxSize
NoJob == [status |-> "none", proc |-> 0]
NoRec == [size |-> NoSize, hits |-> 0]

\* what an encode process does that the GUI and the watcher can see, in
\* order: the job directory is made, the sidecars are written, JOB_DONE is
\* printed last; or, the input being there, an encoder fails behind the
\* making of the job directory and the error is printed
OkScript == <<"mkdir", "sidecars", "JOB_DONE">>
FailScripts == {<<"mkdir", "Error">>}

GuiIdle ==
  /\ jobs = [b \in Bases |-> NoJob]
  /\ procs = <<>>
  /\ logQueue = <<>>
  /\ history = <<>>
  /\ controls = TRUE
  /\ outDirs = {}
  /\ playerJson = {}
  /\ wOpts = [hls |-> FALSE, dash |-> FALSE]
  /\ wPc = "off"
  /\ wPath = ClipMp4
  /\ seen = [f \in FolderFiles |-> NoRec]
  /\ processed = {}
  /\ sizes = [f \in FolderFiles |-> 1]
  /\ enqueued = [f \in FolderFiles |-> 0]
  /\ started = {}
  /\ polled = [f \in FolderFiles |-> <<>>]

InitCommon ==
  /\ exitCode = [r \in RunIds |-> -1]
  /\ out = [r \in RunIds |-> <<>>]
  /\ spawned = [r \in RunIds |-> <<>>]
  /\ src = [r \in RunIds |-> <<0, 0>>]
  /\ dar = [r \in RunIds |-> ""]
  /\ targets = [r \in RunIds |-> <<>>]
  /\ tracks = [r \in RunIds |-> 0]
  /\ posterRel = [r \in RunIds |-> FALSE]
  /\ sources = [r \in RunIds |-> {}]
  /\ mapping = [r \in RunIds |-> <<>>]
  /\ moveIdx = [r \in RunIds |-> 1]
  /\ wjFile = [r \in RunIds |-> "job.json"]
  /\ wjFd = [r \in RunIds |-> 0]
  /\ wjPart = [r \in RunIds |-> 1]
  /\ workdirExists = FALSE
  /\ posterFile = FALSE
  /\ hlsExists = FALSE
  /\ hlsRend = <<>>
  /\ hlsKeys = {}
  /\ hlsMaster = <<>>
  /\ dashExists = FALSE
  /\ dashDirs = <<>>
  /\ mpd = <<>>
  /\ files = [p \in SidecarPaths |-> 0]
  /\ inodes = [i \in InodeIds |-> <<>>]
  /\ nextInode = 0
  /\ lastRead = -1
  /\ consumed = [r \in RunIds |-> 0]
  /\ workdir = [r \in RunIds |-> <<>>]
  /\ hlsCmd = [r \in RunIds |-> NoCmd]
  /\ dashCmd = [r \in RunIds |-> NoCmd]
  /\ playerMeta = [r \in RunIds |-> {}]
  /\ endView = [r \in RunIds |-> NoView]
  /\ signals = [r \in RunIds |-> <<>>]
  /\ orphan = [r \in RunIds |-> "none"]
  /\ guiOpen = TRUE
  /\ GuiIdle

\* no encoder runs under the progress translator
TrIdle ==
  /\ trProgress = [total_ms |-> NoTotal, base |-> "", label |-> ""]
  /\ trIn = <<>>
  /\ trPos = 0
  /\ trOut = <<>>
  /\ trPc = "idle"

\* one encode run into a fresh output directory
Init ==
  /\ runs = {1}
  /\ \E a \in SpecArgs :
       args = [r \in RunIds |-> IF r = 1 THEN a ELSE IdleArgs]
  /\ pc = [r \in RunIds |-> IF r \in runs THEN "start" ELSE "idle"]
  /\ InitCommon
  /\ TrIdle

\* ---------------------------------------------------------------- helpers
Goto(r, p) == pc' = [pc EXCEPT ![r] = p]
Say(r, lines) == out' = [out EXCEPT ![r] = @ \o lines]
Launch(r, kinds) == spawned' = [spawned EXCEPT ![r] = @ \o kinds]

\* sys.exit(code), or the process ending after main() returned
Exit(r, code) ==
  /\ exitCode' = [exitCode EXCEPT ![r] = code]
  /\ Goto(r, "exited")

\* an exception leaving main(): caught at top level, printed, exit 1
Raise(r) ==
  /\ Say(r, <<"Error">>)
  /\ Exit(r, 1)

Heights(ts) == {ts[i].h : i \in DOMAIN ts}

\* ------------------------------------------------------------ main: start
\* a plausible slip: the existence check placed behind the poster step
InputNotFoundMutant(r) ==
  /\ r \in runs /\ pc[r] = "start" /\ ~args[r].inputExists
  /\ Say(r, <<"ERROR: input not found">>)
  /\ Launch(r, <<"poster">>)
  /\ Exit(r, 2)
  /\ UNCHANGED <<runs, args, jobVars, dashVars, wjVars, workdirExists,
                 posterFile, hlsFs, dashFs, jsonFs,
                 readVars, histVars, extVars>>

InputNotFound(r) ==
  /\ r \in runs /\ pc[r] = "start" /\ ~args[r].inputExists
  /\ Say(r, <<"ERROR: input not found">>)
  /\ Exit(r, 2)
  /\ UNCHANGED <<runs, args, spawned, jobVars, dashVars, wjVars,
                 workdirExists, posterFile, hlsFs, dashFs, jsonFs,
                 readVars, histVars, extVars>>

Begin(r) ==
  /\ r \in runs /\ pc[r] = "start" /\ args[r].inputExists
  /\ workdir' = [workdir EXCEPT ![r] = JobDir(args[r].outdir, args[r].input)]
  /\ workdirExists' = TRUE
  /\ Say(r, <<"[encode] start", "Using ffmpeg">>)
  /\ Goto(r, "poster")
  /\ UNCHANGED <<runs, args, exitCode, spawned, jobVars, dashVars, wjVars,
                 posterFile, hlsFs, dashFs, jsonFs, readVars, hlsCmd,
                 dashCmd, playerMeta, endView, extVars>>

\* make_poster: one ffmpeg call whose failure is swallowed
MakePoster(r) ==
  /\ r \in runs /\ pc[r] = "poster"
  /\ Say(r, <<"cmd">>)
  /\ Launch(r, <<"poster">>)
  /\ \E ok \in BOOLEAN :
       /\ posterFile' = (posterFile \/ ok)
       /\ posterRel' = [posterRel EXCEPT ![r] = ok]
  /\ Goto(r, "subs")
  /\ UNCHANGED <<runs, args, exitCode, src, dar, targets, tracks, sources,
                 dashVars, wjVars, workdirExists, hlsFs, dashFs, jsonFs,
                 readVars, histVars, extVars>>

\* --srt converts one file with ffmpeg (n = 0: the file is missing, which
\* is reported and skipped); --extract-subs lists the embedded streams
\* with ffprobe and converts each of the n text streams with ffmpeg
Subtitles(r) ==
  /\ r \in runs /\ pc[r] = "subs"
  /\ \E n \in 0..1 :
       /\ Launch(r, CASE args[r].subs = "srt" ->
                           IF n = 1 THEN <<"subs_ffmpeg">> ELSE <<>>
                      [] args[r].subs = "extract" ->
                           <<"subs_ffprobe">>
                             \o (IF n = 1 THEN <<"subs_ffmpeg">> ELSE <<>>)
                      [] OTHER -> <<>>)
       /\ tracks' = [tracks EXCEPT ![r] =
                       IF args[r].subs = "none" THEN 0 ELSE n]
       /\ Say(r, IF args[r].subs = "srt" /\ n = 0
                 THEN <<"[subs] failed">> ELSE <<>>)
  /\ Goto(r, "probe_wh")
  /\ UNCHANGED <<runs, args, exitCode, src, dar, targets, posterRel, sources,
                 dashVars, wjVars, workdirExists, posterFile, hlsFs, dashFs,
                 jsonFs, readVars, histVars, extVars>>

\* probe_src_wh: any failure gives (1920, 1080)
ProbeWH(r) ==
  /\ r \in runs /\ pc[r] = "probe_wh"
  /\ Launch(r, <<"ffprobe">>)
  /\ src' = [src EXCEPT ![r] =
               IF args[r].media.w = 0 THEN <<FallbackW, FallbackH>>
               ELSE <<args[r].media.w, args[r].media.h>>]
  /\ Goto(r, "probe_dar")
  /\ UNCHANGED <<runs, args, exitCode, out, dar, targets, tracks, posterRel,
                 sources, dashVars, wjVars, workdirExists, posterFile, hlsFs,
                 dashFs, jsonFs, readVars, histVars, extVars>>

\* probe_dar: any failure gives "16:9"
ProbeDar(r) ==
  /\ r \in runs /\ pc[r] = "probe_dar"
  /\ Launch(r, <<"ffprobe">>)
  /\ dar' = [dar EXCEPT ![r] =
               IF args[r].media.dar = "" THEN "16:9" ELSE args[r].media.dar]
  /\ Goto(r, "build")
  /\ UNCHANGED <<runs, args, exitCode, out, src, targets, tracks, posterRel,
                 sources, dashVars, wjVars, workdirExists, posterFile, hlsFs,
                 dashFs, jsonFs, readVars, histVars, extVars>>

Ladder(r) ==
  build_targets(args[r].renditions, args[r].mode, src[r][1], src[r][2])

EmptyLadder(r) ==
  /\ r \in runs /\ pc[r] = "build" /\ Ladder(r) = <<>>
  /\ Say(r, <<"ERROR: no valid renditions">>)
  /\ Exit(r, 3)
  /\ UNCHANGED <<runs, args, spawned, jobVars, dashVars, wjVars,
                 workdirExists, posterFile, hlsFs, dashFs, jsonFs,
                 readVars, histVars, extVars>>

LadderReady(r) ==
  /\ r \in runs /\ pc[r] = "build" /\ Ladder(r) # <<>>
  /\ targets' = [targets EXCEPT ![r] = Ladder(r)]
  /\ Goto(r, "hls")
  /\ UNCHANGED <<runs, args, exitCode, out, spawned, src, dar, tracks,
                 posterRel, sources, dashVars, wjVars, workdirExists,
                 posterFile, hlsFs, dashFs, jsonFs,
                 readVars, histVars, extVars>>

\* -------------------------------------------------------------------- HLS
SkipHls(r) ==
  /\ r \in runs /\ pc[r] = "hls" /\ ~args[r].hls
  /\ Goto(r, "dash")
  /\ UNCHANGED <<runs, args, exitCode, out, spawned, jobVars, dashVars,
                 wjVars, workdirExists, posterFile, hlsFs, dashFs, jsonFs,
                 readVars, histVars, extVars>>

\* a plausible slip: run(cmd) inside the per-rendition loop
EncoderLaunchesPerRendition(ts) == Len(ts)

\* encoder processes one packager launches for a ladder: run(cmd) is called
\* once, after the loop that adds the per-rendition outputs to cmd
EncoderLaunches(ts) == 1

EncoderProcs(kind, ts) == [i \in 1..EncoderLaunches(ts) |-> kind]

\* the directories, the key files and the start of the one HLS encoder
HlsStart(r) ==
  /\ r \in runs /\ pc[r] = "hls" /\ args[r].hls
  /\ Say(r, <<"[hls] start", "cmd">>)
  /\ hlsExists' = TRUE
  /\ hlsRend' = hlsRend @@ [h \in Heights(targets[r]) |-> 0]
  /\ hlsKeys' = IF args[r].encrypt
                THEN hlsKeys \cup {0} \cup Heights(targets[r])
                ELSE hlsKeys
  /\ hlsCmd' = [hlsCmd EXCEPT ![r] =
                  LET g == build_filter_complex_for_targets(targets[r]) IN
                  [maps |-> DashMaps(targets[r]), adaptation_sets |-> <<>>,
                   fc |-> g.fc, labels |-> g.out_labels,
                   rates |-> [i \in 1..Len(targets[r]) |->
                                add_stream_opts_one(targets[r][i].br)]]]
  /\ Launch(r, EncoderProcs("hls_encoder", targets[r]))
  /\ Goto(r, "hls_wait")
  /\ UNCHANGED <<runs, args, exitCode, jobVars, dashVars, wjVars,
                 workdirExists, posterFile, hlsMaster, dashFs, jsonFs,
                 readVars, workdir, dashCmd, playerMeta, endView, extVars>>

\* a plausible slip: the failure is logged and the job goes on
HlsEncoderFailIgnored(r) ==
  /\ r \in runs /\ pc[r] = "hls_wait"
  /\ Say(r, <<"Error">>)
  /\ Goto(r, "dash")
  /\ UNCHANGED <<runs, args, exitCode, spawned, jobVars, dashVars, wjVars,
                 workdirExists, posterFile, hlsFs, dashFs, jsonFs,
                 readVars, histVars, extVars>>

\* the encoder exits nonzero: run raises, nothing in main catches it
HlsEncoderFail(r) ==
  /\ r \in runs /\ pc[r] = "hls_wait"
  /\ Raise(r)
  /\ UNCHANGED <<runs, args, spawned, jobVars, dashVars, wjVars,
                 workdirExists, posterFile, hlsFs, dashFs, jsonFs,
                 readVars, histVars, extVars>>

\* the encoder exits 0 with the segments of every rendition written; the
\* master playlist is written and sources["hls"] is set
HlsEncoderOk(r) ==
  /\ r \in runs /\ pc[r] = "hls_wait"
  /\ hlsRend' = [h \in Heights(targets[r]) |-> r] @@ hlsRend
  /\ hlsMaster' = write_hls_master(targets[r])
  /\ sources' = [sources EXCEPT ![r] = @ \cup {"hls"}]
  /\ Say(r, <<"[hls] done">>)
  /\ Goto(r, "dash")
  /\ UNCHANGED <<runs, args, exitCode, spawned, src, dar, targets, tracks,
                 posterRel, dashVars, wjVars, workdirExists, posterFile,
                 hlsExists, hlsKeys, dashFs, jsonFs,
                 readVars, histVars, extVars>>

\* ------------------------------------------------------------------- DASH
SkipDash(r) ==
  /\ r \in runs /\ pc[r] = "dash" /\ ~args[r].dash
  /\ Goto(r, "duration")
  /\ UNCHANGED <<runs, args, exitCode, out, spawned, jobVars, dashVars,
                 wjVars, workdirExists, posterFile, hlsFs, dashFs, jsonFs,
                 readVars, histVars, extVars>>

\* DASH/ and the numeric directories 0 .. 2N-1, then the one DASH encoder
DashStart(r) ==
  /\ r \in runs /\ pc[r] = "dash" /\ args[r].dash
  /\ Say(r, <<"[dash] start", "cmd">>)
  /\ dashExists' = TRUE
  /\ dashDirs' = dashDirs @@ [d \in 0..(2 * Len(targets[r]) - 1) |-> <<>>]
  /\ dashCmd' = [dashCmd EXCEPT ![r] =
                   LET g == build_filter_complex_for_targets(targets[r]) IN
                   [maps |-> DashMaps(targets[r]),
                    adaptation_sets |-> <<"v", "a">>,
                    fc |-> g.fc, labels |-> g.out_labels,
                    rates |-> [i \in 1..Len(targets[r]) |->
                                 DashRates(targets[r][i].br)]]]
  /\ Launch(r, EncoderProcs("dash_encoder", targets[r]))
  /\ Goto(r, "dash_wait")
  /\ UNCHANGED <<runs, args, exitCode, jobVars, dashVars, wjVars,
                 workdirExists, posterFile, hlsFs, mpd, jsonFs, readVars,
                 workdir, hlsCmd, playerMeta, endView, extVars>>

DashEncoderFail(r) ==
  /\ r \in runs /\ pc[r] = "dash_wait"
  /\ Raise(r)
  /\ UNCHANGED <<runs, args, spawned, jobVars, dashVars, wjVars,
                 workdirExists, posterFile, hlsFs, dashFs, jsonFs,
                 readVars, histVars, extVars>>

\* what the encoder leaves on exit 0: the manifest with one video
\* Representation per mapped video stream, in map order, carrying the stream
\* index as id and the encoded size; and under <id>/ the init and media
\* segments of every stream, video and audio
EncodedReps(r) ==
  [i \in 1..Len(targets[r]) |->
     [id |-> VideoId(i, args[r].media.audio),
      w |-> targets[r][i].w, h |-> targets[r][i].h]]

StreamIds(r) ==
  0..(Len(DashStreams(dashCmd[r].maps, args[r].media.audio)) - 1)

SegmentsOf(r, id) == [n \in SegNames |-> <<r, id>>]

\* DASH/ after the encoder of run r wrote the segments of its streams
DashWritten(r) ==
  [d \in DOMAIN dashDirs \cup StreamIds(r) |->
     IF d \in StreamIds(r)
     THEN IF d \in DOMAIN dashDirs THEN SegmentsOf(r, d) @@ dashDirs[d]
          ELSE SegmentsOf(r, d)
     ELSE dashDirs[d]]

DashEncoderOk(r) ==
  /\ r \in runs /\ pc[r] = "dash_wait"
  /\ mpd' = EncodedReps(r)
  /\ dashDirs' = DashWritten(r)
  /\ Goto(r, "dash_rewrite")
  /\ UNCHANGED <<runs, args, exitCode, out, spawned, jobVars, dashVars,
                 wjVars, workdirExists, posterFile, hlsFs, dashExists,
                 jsonFs, readVars, histVars, extVars>>

\* --------------------------------------------------------- DASH rewrite
\* an absent XML attribute is -1.  idx counts from 1 here, from 0 in the code
RepRid(rep, idx) == IF rep.id = -1 THEN 2 * (idx - 1) ELSE rep.id

RepHeight(rep, idx, ts) ==
  IF rep.h # -1 THEN rep.h
  ELSE IF idx <= Len(ts) THEN ts[idx].h ELSE -1

\* next(t[0] for t in targets if t[1] == h): the first entry of that height
WidthOfHeight(h, ts) ==
  IF \E i \in DOMAIN ts : ts[i].h = h
  THEN ts[CHOOSE i \in DOMAIN ts :
            /\ ts[i].h = h
            /\ \A j \in DOMAIN ts : ts[j].h = h => i <= j].w
  ELSE 0

RewriteRep(rep, idx, ts) ==
  LET h == RepHeight(rep, idx, ts)
      w == WidthOfHeight(h, ts)
  IN  IF h = -1 THEN rep
      ELSE IF w # 0 THEN [id |-> h, w |-> w, h |-> h]
           ELSE [rep EXCEPT !.id = h]

RewriteMapping(reps, ts) ==
  LET kept == {i \in DOMAIN reps : RepHeight(reps[i], i, ts) # -1}
      F[n \in 0..Len(reps)] ==
        IF n = 0 THEN <<>>
        ELSE IF n \in kept
             THEN Append(F[n - 1],
                         <<RepRid(reps[n], n), RepHeight(reps[n], n, ts)>>)
             ELSE F[n - 1]
  IN  F[Len(reps)]

\* parse the manifest, rewrite the video representations, write it back
DashRewrite(r) ==
  /\ r \in runs /\ pc[r] = "dash_rewrite"
  /\ mapping' = [mapping EXCEPT ![r] = RewriteMapping(mpd, targets[r])]
  /\ mpd' = [i \in DOMAIN mpd |-> RewriteRep(mpd[i], i, targets[r])]
  /\ moveIdx' = [moveIdx EXCEPT ![r] = 1]
  /\ Goto(r, "dash_move")
  /\ UNCHANGED <<runs, args, exitCode, out, spawned, jobVars, wjVars,
                 workdirExists, posterFile, hlsFs, dashExists, dashDirs,
                 jsonFs, readVars, histVars, extVars>>

\* a plausible slip: the except clause reports the error and re-raises
DashRewriteFailRaises(r) ==
  /\ r \in runs /\ pc[r] = "dash_rewrite"
  /\ Say(r, <<"[dash] mpd rewrite warn", "Error">>)
  /\ Exit(r, 1)
  /\ UNCHANGED <<runs, args, spawned, jobVars, dashVars, wjVars,
                 workdirExists, posterFile, hlsFs, dashFs, jsonFs,
                 readVars, histVars, extVars>>

\* ET.parse or tree.write raises (manifest unreadable, malformed or not
\* writable): caught, reported as a warning, nothing rewritten or moved
DashRewriteFail(r) ==
  /\ r \in runs /\ pc[r] = "dash_rewrite"
  /\ Say(r, <<"[dash] mpd rewrite warn">>)
  /\ Goto(r, "dash_end")
  /\ UNCHANGED <<runs, args, exitCode, spawned, jobVars, dashVars, wjVars,
                 workdirExists, posterFile, hlsFs, dashFs, jsonFs,
                 readVars, histVars, extVars>>

Without(f, d) == [x \in DOMAIN f \ {d} |-> f[x]]

\* a plausible slip: an existing DASH/<h> is left alone
MoveDirNoMerge(dirs, rid, h) ==
  IF rid \notin DOMAIN dirs THEN dirs
  ELSE IF h \in DOMAIN dirs THEN dirs
       ELSE Without(dirs, rid) @@ (h :> dirs[rid])

\* the directory tree after one (rid, h) pair: nothing when DASH/<rid> is
\* missing; files moved over the ones of DASH/<h> and DASH/<rid> removed
\* when DASH/<h> exists; DASH/<rid> renamed otherwise
MoveDir(dirs, rid, h) ==
  IF rid \notin DOMAIN dirs THEN dirs
  ELSE IF h \in DOMAIN dirs
       THEN Without([dirs EXCEPT ![h] = dirs[rid] @@ dirs[h]], rid)
       ELSE Without(dirs, rid) @@ (h :> dirs[rid])

\* a plausible slip: the files are copied and DASH/<rid> is left behind
DashMoveKeepsSource(r) ==
  /\ r \in runs /\ pc[r] = "dash_move" /\ moveIdx[r] <= Len(mapping[r])
  /\ dashDirs' = MoveDir(dashDirs, mapping[r][moveIdx[r]][1],
                         mapping[r][moveIdx[r]][2])
                   @@ dashDirs
  /\ moveIdx' = [moveIdx EXCEPT ![r] = @ + 1]
  /\ UNCHANGED <<procVars, jobVars, mapping, wjVars, workdirExists,
                 posterFile, hlsFs, dashExists, mpd, jsonFs,
                 readVars, histVars, extVars>>

\* one (rid, h) pair of the renaming loop
DashMove(r) ==
  /\ r \in runs /\ pc[r] = "dash_move" /\ moveIdx[r] <= Len(mapping[r])
  /\ dashDirs' = MoveDir(dashDirs, mapping[r][moveIdx[r]][1],
                         mapping[r][moveIdx[r]][2])
  /\ moveIdx' = [moveIdx EXCEPT ![r] = @ + 1]
  /\ UNCHANGED <<procVars, jobVars, mapping, wjVars, workdirExists,
                 posterFile, hlsFs, dashExists, mpd, jsonFs,
                 readVars, histVars, extVars>>

\* os.replace or mkdir raises while DASH/<rid> is moved (the directory is
\* in use, or not permitted): caught, reported as a warning, the remaining
\* directories keep their numeric names
DashMoveFail(r) ==
  /\ r \in runs /\ pc[r] = "dash_move" /\ moveIdx[r] <= Len(mapping[r])
  /\ mapping[r][moveIdx[r]][1] \in DOMAIN dashDirs
  /\ Say(r, <<"[dash] mpd rewrite warn">>)
  /\ Goto(r, "dash_end")
  /\ UNCHANGED <<runs, args, exitCode, spawned, jobVars, dashVars, wjVars,
                 workdirExists, posterFile, hlsFs, dashFs, jsonFs,
                 readVars, histVars, extVars>>

\* behind the try block, reached from its end and from its except clause
DashDone(r) ==
  /\ r \in runs
  /\ IF pc[r] = "dash_move" THEN moveIdx[r] > Len(mapping[r])
     ELSE pc[r] = "dash_end"
  /\ sources' = [sources EXCEPT ![r] = @ \cup {"dash"}]
  /\ Say(r, <<"[dash] done">>)
  /\ Goto(r, "duration")
  /\ UNCHANGED <<runs, args, exitCode, spawned, src, dar, targets, tracks,
                 posterRel, dashVars, wjVars, workdirExists, posterFile,
                 hlsFs, dashFs, jsonFs, readVars, histVars, extVars>>

\* ------------------------------------------------------------- sidecars
\* the duration probe, then write_json(job.json) begins
ProbeDuration(r) ==
  /\ r \in runs /\ pc[r] = "duration"
  /\ Launch(r, <<"ffprobe">>)
  /\ wjFile' = [wjFile EXCEPT ![r] = "job.json"]
  /\ Goto(r, "wj_open")
  /\ UNCHANGED <<runs, args, exitCode, out, jobVars, dashVars, wjFd, wjPart,
                 workdirExists, posterFile, hlsFs, dashFs, jsonFs,
                 readVars, histVars, extVars>>

\* a plausible slip: both packagers listed whatever ran
PlayerSourcesBoth(r) == {"hls", "dash"}

\* the keys of the "sources" entry of the player.json object
PlayerSources(r) == sources[r]

\* open(tmp, "w"): an existing file is truncated in place, a missing one is
\* created; the object handed to json.dump is the one main() built
WjOpen(r) ==
  /\ r \in runs /\ pc[r] = "wj_open"
  /\ LET tmp == TmpOf(wjFile[r])
         ino == IF files[tmp] # 0 THEN files[tmp] ELSE nextInode + 1
     IN  /\ files' = [files EXCEPT ![tmp] = ino]
         /\ inodes' = [inodes EXCEPT ![ino] = <<>>]
         /\ nextInode' = IF files[tmp] # 0 THEN nextInode ELSE nextInode + 1
         /\ wjFd' = [wjFd EXCEPT ![r] = ino]
  /\ wjPart' = [wjPart EXCEPT ![r] = 1]
  /\ playerMeta' = [playerMeta EXCEPT ![r] =
                      IF wjFile[r] = "player.json" THEN PlayerSources(r)
                      ELSE @]
  /\ Goto(r, "wj_write")
  /\ UNCHANGED <<runs, args, exitCode, out, spawned, jobVars, dashVars,
                 wjFile, workdirExists, posterFile, hlsFs, dashFs, readVars,
                 workdir, hlsCmd, dashCmd, endView, extVars>>

\* cell k of a file written through a descriptor whose offset is k - 1; a
\* file that was truncated meanwhile gets a hole before it
Hole == <<0, 0>>

WriteAt(content, k, cell) ==
  [i \in 1..(IF Len(content) > k THEN Len(content) ELSE k) |->
     IF i = k THEN cell
     ELSE IF i <= Len(content) THEN content[i] ELSE Hole]

WjWrite(r) ==
  /\ r \in runs /\ pc[r] = "wj_write"
  /\ inodes' = [inodes EXCEPT ![wjFd[r]] = WriteAt(@, wjPart[r], <<r, wjPart[r]>>)]
  /\ wjPart' = [wjPart EXCEPT ![r] = @ + 1]
  /\ Goto(r, IF wjPart[r] = JsonParts THEN "wj_replace" ELSE "wj_write")
  /\ UNCHANGED <<runs, args, exitCode, out, spawned, jobVars, dashVars,
                 wjFile, wjFd, workdirExists, posterFile, hlsFs, dashFs,
                 files, nextInode, readVars, histVars, extVars>>

\* a plausible slip: JOB_DONE printed before player.json is written
AfterWriteEarlyDone(path) == "job_done"

\* where main() goes after write_json(path) returned
AfterWrite(path) == IF path = "job.json" THEN "wj_open" ELSE "job_done"

\* tmp.replace(path): the final path takes over the temporary file; a
\* missing temporary file raises
WjReplace(r) ==
  /\ r \in runs /\ pc[r] = "wj_replace"
  /\ LET tmp == TmpOf(wjFile[r])
     IN  IF files[tmp] # 0
         THEN /\ files' = [files EXCEPT ![wjFile[r]] = files[tmp], ![tmp] = 0]
              /\ wjFile' = [wjFile EXCEPT ![r] = "player.json"]
              /\ Goto(r, AfterWrite(wjFile[r]))
              /\ UNCHANGED <<exitCode, out>>
         ELSE /\ Raise(r)
              /\ UNCHANGED <<files, wjFile>>
  /\ UNCHANGED <<runs, args, spawned, jobVars, dashVars, wjFd, wjPart,
                 workdirExists, posterFile, hlsFs, dashFs, inodes, nextInode,
                 readVars, histVars, extVars>>

\* the manifests and rendition directories of the job directory
View ==
  [master |-> hlsMaster, mpd |-> mpd, hlsDirs |-> DOMAIN hlsRend,
   dashDirs |-> DOMAIN dashDirs]

\* print JOB_DONE, return from main, exit 0
JobDone(r) ==
  /\ r \in runs /\ pc[r] = "job_done"
  /\ Say(r, <<"JOB_DONE">>)
  /\ Exit(r, 0)
  /\ endView' = [endView EXCEPT ![r] = View]
  /\ UNCHANGED <<runs, args, spawned, jobVars, dashVars, wjVars,
                 workdirExists, posterFile, hlsFs, dashFs, jsonFs, readVars,
                 workdir, hlsCmd, dashCmd, playerMeta, extVars>>

\* --------------------------------------------------------------- readers
\* what a reader finds at a path: -1 nothing, r the complete content of one
\* write_json call of run r, -2 anything else
Complete(r) == [k \in 1..JsonParts |-> <<r, k>>]

Observe(path) ==
  IF files[path] = 0 THEN -1
  ELSE IF \E r \in RunIds : inodes[files[path]] = Complete(r)
       THEN CHOOSE r \in RunIds : inodes[files[path]] = Complete(r)
       ELSE -2

\* the preview server or any other reader opens a final path
ReadSidecar ==
  /\ \E path \in FinalPaths : lastRead' = Observe(path)
  /\ lastRead' # lastRead
  /\ UNCHANGED <<procVars, jobVars, dashVars, wjVars, workdirExists,
                 posterFile, hlsFs, dashFs, jsonFs, consumed, histVars,
                 extVars>>

\* the caller reacts to the JOB_DONE line of run r by reading player.json
HistoryRecord(r) ==
  /\ r \in runs /\ consumed[r] = 0
  /\ \E i \in DOMAIN out[r] : out[r][i] = "JOB_DONE"
  /\ consumed' = [consumed EXCEPT ![r] = Observe("player.json")]
  /\ UNCHANGED <<procVars, jobVars, dashVars, wjVars, workdirExists,
                 posterFile, hlsFs, dashFs, jsonFs, lastRead, histVars,
                 extVars>>

\* ---------------------------------------------------- progress translator
\* a line of encoder output, stripped: key is what precedes the first "=",
\* int tells whether what follows it is an integer literal, val is that
\* integer.  "other" is a line without "="
OutLine(key, int, val) == [key |-> key, int |-> int, val |-> val]

MarkerVals == {-5, 0, 1, 50, 150}
Totals == {NoTotal, 0, 3, 100}

EncoderLines ==
  {OutLine("out_time_ms", TRUE, v) : v \in MarkerVals}
    \cup {OutLine("out_time_ms", FALSE, 0), OutLine("progress", FALSE, 0),
          OutLine("frame", TRUE, 1), OutLine("other", FALSE, 0)}

\* a plausible slip: the upper clamp alone
PercentNoFloor(out_ms, total_ms) ==
  IF total_ms # NoTotal /\ total_ms > 0
  THEN LET p == RoundHalfEven(10000 * out_ms, total_ms)
       IN  IF p > 10000 THEN 10000 ELSE p
  ELSE 0

\* the number printed as pct, in hundredths: max(0, min(100, out_ms /
\* total_ms * 100)) formatted with two decimals, 0 without a positive total
Percent(out_ms, total_ms) ==
  IF total_ms # NoTotal /\ total_ms > 0
  THEN LET p == RoundHalfEven(10000 * out_ms, total_ms)
       IN  IF p < 0 THEN 0 ELSE IF p > 10000 THEN 10000 ELSE p
  ELSE 0

\* what the translator prints: a PROGRESS event or the line itself
Event(base, label, pct) ==
  [kind |-> "PROGRESS", base |-> base, rend |-> label, pct |-> pct,
   line |-> OutLine("", FALSE, 0)]

Plain(line) ==
  [kind |-> "line", base |-> "", rend |-> "", pct |-> 0, line |-> line]

\* a plausible slip: a marker whose value does not parse is printed as is
TranslateKeepBad(line, progress) ==
  IF line.key = "out_time_ms"
  THEN IF line.int
       THEN <<Event(progress.base, progress.label,
                    Percent(line.val, progress.total_ms))>>
       ELSE <<Plain(line)>>
  ELSE <<Plain(line)>>

\* the body of the read loop for one line: a marker line gives an event, or
\* nothing at all when int() raises on its value; any other line is printed
Translate(line, progress) ==
  IF line.key = "out_time_ms"
  THEN IF line.int
       THEN <<Event(progress.base, progress.label,
                    Percent(line.val, progress.total_ms))>>
       ELSE <<>>
  ELSE <<Plain(line)>>

TrReadLine ==
  /\ trPc = "reading" /\ trPos < Len(trIn)
  /\ trOut' = trOut \o Translate(trIn[trPos + 1], trProgress)
  /\ trPos' = trPos + 1
  /\ UNCHANGED <<procVars, jobVars, dashVars, wjVars, workdirExists,
                 posterFile, hlsFs, dashFs, jsonFs, readVars, histVars,
                 trProgress, trIn, trPc, guiVars, mgrVars, watchVars>>

\* end of output, p.wait(): return on code 0, raise otherwise
TrWait ==
  /\ trPc = "reading" /\ trPos = Len(trIn)
  /\ \E rc \in {0, 1} : trPc' = IF rc = 0 THEN "returned" ELSE "raised"
  /\ UNCHANGED <<procVars, jobVars, dashVars, wjVars, workdirExists,
                 posterFile, hlsFs, dashFs, jsonFs, readVars, histVars,
                 trProgress, trIn, trPos, trOut, guiVars, mgrVars,
                 watchVars>>

\* ------------------------------------------------------------------ specs
Step(r) ==
  \/ InputNotFound(r) \/ Begin(r) \/ MakePoster(r) \/ Subtitles(r)
  \/ ProbeWH(r) \/ ProbeDar(r) \/ EmptyLadder(r) \/ LadderReady(r)
  \/ SkipHls(r) \/ HlsStart(r) \/ HlsEncoderFail(r) \/ HlsEncoderOk(r)
  \/ SkipDash(r) \/ DashStart(r) \/ DashEncoderFail(r) \/ DashEncoderOk(r)
  \/ DashRewrite(r) \/ DashRewriteFail(r) \/ DashMove(r) \/ DashMoveFail(r)
  \/ DashDone(r)
  \/ ProbeDuration(r) \/ WjOpen(r) \/ WjWrite(r) \/ WjReplace(r)
  \/ JobDone(r) \/ HistoryRecord(r)

Next == (\E r \in RunIds : Step(r)) \/ ReadSidecar

Spec == Init /\ [][Next]_vars

\* two encode runs at the same time, of two files, whose job directories
\* coincide; run 2 is an HLS run of an existing file
InitConc ==
  /\ runs = RunIds
  /\ args \in [RunIds -> ConcArgs]
  /\ args[1].input # args[2].input
  /\ args[1].input = ClipMp4
  /\ args[2].inputExists /\ args[2].renditions = <<720>>
  /\ args[2].hls /\ ~args[2].dash
  /\ \A r \in RunIds : JobDir(args[r].outdir, args[r].input)
                          = JobDir(args[1].outdir, args[1].input)
  /\ pc = [r \in RunIds |-> "start"]
  /\ InitCommon
  /\ TrIdle

SpecConc == InitConc /\ [][Next]_vars

\* two encode runs of the same file into the same output root, one after
\* the other: run 2 is started once run 1 has exited
SeqArgs ==
  { a \in AllArgs : /\ a.renditions \in {<<720>>, <<1080, 720>>, <<9999>>}
                    /\ a.mode = "source" /\ (a.hls \/ a.dash)
                    /\ ~a.encrypt /\ a.subs = "none"
                    /\ a.media.w = 1920 /\ a.input = ClipMp4
                    /\ (~a.inputExists \/ a.renditions = <<9999>>) =>
                         (a.hls /\ a.dash) }

InitSeq ==
  /\ runs = RunIds
  /\ args \in [RunIds -> SeqArgs]
  /\ args[1].inputExists = args[2].inputExists
  /\ pc = [r \in RunIds |-> IF r = 1 THEN "start" ELSE "later"]
  /\ InitCommon
  /\ TrIdle

\* the process of a later run is started
StartLater(r) ==
  /\ r \in runs /\ pc[r] = "later"
  /\ \A q \in runs \ {r} : pc[q] = "exited"
  /\ Goto(r, "start")
  /\ UNCHANGED <<runs, args, exitCode, out, spawned, jobVars, dashVars,
                 wjVars, workdirExists, posterFile, hlsFs, dashFs, jsonFs,
                 readVars, histVars, extVars>>

NextSeq == Next \/ (\E r \in RunIds : StartLater(r))

SpecSeq == InitSeq /\ [][NextSeq]_vars

\* ----------------------------------------------- representation ids
\* the rewrite reads the representation ids from the manifest the encoder
\* wrote (rep.get("id")), and the encoder writes the segments of a
\* representation under $RepresentationID$/: the ids are the encoder's
\* choice, any distinct numbers, among them numbers that spell a height
IdChoices == {0, 2, 720, 1080}

IdAssignments(n) ==
  { ids \in [1..n -> IdChoices] : \A i, j \in 1..n : ids[i] = ids[j] => i = j }

AudioIds(r) ==
  IF args[r].media.audio THEN {d \in StreamIds(r) : d % 2 = 1} ELSE {}

\* the encoder exits 0 having given the video representations the ids ids
DashEncoderOkIds(r, ids) ==
  /\ r \in runs /\ pc[r] = "dash_wait"
  /\ ids \in IdAssignments(Len(targets[r]))
  /\ mpd' = [i \in 1..Len(targets[r]) |->
               [id |-> ids[i], w |-> targets[r][i].w, h |-> targets[r][i].h]]
  /\ LET written == {ids[i] : i \in 1..Len(targets[r])} \cup AudioIds(r)
     IN  dashDirs' =
           [d \in DOMAIN dashDirs \cup written |->
              IF d \in written
              THEN IF d \in DOMAIN dashDirs
                   THEN SegmentsOf(r, d) @@ dashDirs[d]
                   ELSE SegmentsOf(r, d)
              ELSE dashDirs[d]]
  /\ Goto(r, "dash_rewrite")
  /\ UNCHANGED <<runs, args, exitCode, out, spawned, jobVars, dashVars,
                 wjVars, workdirExists, posterFile, hlsFs, dashExists,
                 jsonFs, readVars, histVars, extVars>>

\* one run of a strictly descending ladder
InitIds ==
  /\ runs = {1}
  /\ \E a \in SeqArgs :
       args = [r \in RunIds |-> IF r = 1 THEN a ELSE IdleArgs]
  /\ pc = [r \in RunIds |-> IF r \in runs THEN "start" ELSE "idle"]
  /\ InitCommon
  /\ TrIdle

NextIds ==
  \/ Next
  \/ \E r \in RunIds : \E n \in 1..MaxReq : \E ids \in IdAssignments(n) :
       DashEncoderOkIds(r, ids)

SpecIds == InitIds /\ [][NextIds]_vars

\* ------------------------------------------------------------ cancelling
\* the encoder the encode process is waiting for
RunningEncoder(r) ==
  IF pc[r] = "hls_wait" THEN "hls_encoder"
  ELSE IF pc[r] = "dash_wait" THEN "dash_encoder" ELSE "none"

\* the encode process ends on the signal where it stands (it installs no
\* handler); the signal goes to that process alone, so an encoder it was
\* waiting for runs on
Terminated(rs, sig) ==
  /\ signals' = [r \in RunIds |-> IF r \in rs THEN signals[r] \o <<sig>>
                                  ELSE signals[r]]
  /\ pc' = [r \in RunIds |-> IF r \in rs THEN "exited" ELSE pc[r]]
  /\ exitCode' = [r \in RunIds |-> IF r \in rs THEN -15 ELSE exitCode[r]]
  /\ orphan' = [r \in RunIds |-> IF r \in rs THEN RunningEncoder(r)
                                 ELSE orphan[r]]

\* cancel_selected on the job of run r: p.terminate() when the process has
\* not exited, p.kill() instead when terminate() raises
Cancel(r) ==
  /\ guiOpen /\ r \in runs /\ pc[r] \notin {"idle", "later", "exited"}
  /\ \E raises \in BOOLEAN :
       Terminated({r}, IF raises THEN "kill" ELSE "terminate")
  /\ UNCHANGED <<runs, args, out, spawned, jobVars, dashVars, wjVars,
                 workdirExists, posterFile, hlsFs, dashFs, jsonFs, readVars,
                 histVars, progVars, guiOpen, mgrVars, watchVars>>

\* closeEvent: p.terminate() for every job whose process has not exited
CloseWindow ==
  /\ guiOpen
  /\ guiOpen' = FALSE
  /\ Terminated({r \in runs : pc[r] \notin {"idle", "later", "exited"}},
                "terminate")
  /\ UNCHANGED <<runs, args, out, spawned, jobVars, dashVars, wjVars,
                 workdirExists, posterFile, hlsFs, dashFs, jsonFs, readVars,
                 histVars, progVars, mgrVars, watchVars>>

\* an encoder whose encode process was terminated finishes its work and
\* exits: the segments are written, nobody reads the exit code
OrphanExit(r) ==
  /\ r \in runs /\ orphan[r] # "none"
  /\ orphan' = [orphan EXCEPT ![r] = "none"]
  /\ IF orphan[r] = "hls_encoder"
     THEN /\ hlsRend' = [h \in Heights(targets[r]) |-> r] @@ hlsRend
          /\ UNCHANGED <<mpd, dashDirs>>
     ELSE /\ mpd' = EncodedReps(r)
          /\ dashDirs' = DashWritten(r)
          /\ UNCHANGED hlsRend
  /\ UNCHANGED <<procVars, jobVars, dashVars, wjVars, workdirExists,
                 posterFile, hlsExists, hlsKeys, hlsMaster, dashExists,
                 jsonFs, readVars, histVars, progVars, signals, guiOpen,
                 mgrVars, watchVars>>

\* one job of the GUI: its encode run, cancellable while it runs
InitCancel ==
  /\ runs = {1}
  /\ \E a \in SeqArgs :
       args = [r \in RunIds |-> IF r = 1 THEN a ELSE IdleArgs]
  /\ pc = [r \in RunIds |-> IF r \in runs THEN "start" ELSE "idle"]
  /\ InitCommon
  /\ TrIdle

NextCancel ==
  \/ Next
  \/ \E r \in RunIds : Cancel(r) \/ OrphanExit(r)
  \/ CloseWindow

SpecCancel == InitCancel /\ [][NextCancel]_vars

\* the progress translator alone, on every encoder output of at most
\* MaxLines lines
LineSeqs == UNION {[1..n -> EncoderLines] : n \in 0..MaxLines}

InitProgress ==
  /\ runs = {}
  /\ args = [r \in RunIds |-> IdleArgs]
  /\ pc = [r \in RunIds |-> "idle"]
  /\ InitCommon
  /\ trProgress \in [total_ms : Totals, base : {"clip"},
                      label : {"720p", "dash"}]
  /\ trIn \in LineSeqs
  /\ trPos = 0
  /\ trOut = <<>>
  /\ trPc = "reading"

NextProgress == TrReadLine \/ TrWait

SpecProgress == InitProgress /\ [][NextProgress]_vars

\* ------------------------------------------------------ GUI: job manager
encVars == <<procVars, jobVars, dashVars, wjVars, workdirExists, posterFile,
             hlsFs, dashFs, jsonFs, readVars, histVars, progVars, guiVars>>

Alive(p) == p \in DOMAIN procs /\ procs[p].state = "alive"

\* _any_running
AnyRunning(js) == \E b \in Bases : js[b].status = "running"

\* subprocess.Popen of encode.py for base b; what the process will do is
\* its own affair
Popen(b, script) ==
  Append(procs, [base |-> b, state |-> "alive", code |-> -1,
                 script |-> script, ok |-> script = OkScript])

\* start_selected and _start_job_for_path on the GUI thread, for a queued
\* path with a resolution and an output format checked: refused while the
\* job of that base is running
GuiStart(path, script) ==
  /\ guiOpen /\ controls
  /\ path \in QueuePaths /\ script \in {OkScript} \cup FailScripts
  /\ Len(procs) < MaxProcs
  /\ jobs[Base(path)].status # "running"
  /\ procs' = Popen(Base(path), script)
  /\ jobs' = [jobs EXCEPT ![Base(path)] =
                [status |-> "running", proc |-> Len(procs) + 1]]
  /\ controls' = FALSE
  /\ UNCHANGED <<encVars, logQueue, history, outDirs, playerJson, watchVars>>

\* the encode process takes its next step; ProcessReader puts a line it
\* printed on the log queue
ProcStep(p) ==
  /\ Alive(p) /\ procs[p].script # <<>>
  /\ LET item == Head(procs[p].script)
         b == procs[p].base
     IN  /\ outDirs' = IF item = "mkdir" THEN outDirs \cup {b} ELSE outDirs
         /\ playerJson' = IF item = "sidecars" THEN playerJson \cup {b}
                          ELSE playerJson
         /\ logQueue' = IF item \in {"JOB_DONE", "Error"}
                        THEN Append(logQueue, <<b, item>>)
                        ELSE logQueue
  /\ procs' = [procs EXCEPT ![p].script = Tail(@)]
  /\ UNCHANGED <<encVars, jobs, history, controls, watchVars>>

\* the encode process exits: 0 behind JOB_DONE, 1 behind an error
ProcExit(p) ==
  /\ Alive(p) /\ procs[p].script = <<>>
  /\ procs' = [procs EXCEPT ![p].state = "exited",
                            ![p].code = IF procs[p].ok THEN 0 ELSE 1]
  /\ UNCHANGED <<encVars, jobs, logQueue, history, controls, outDirs,
                 playerJson, watchVars>>

\* cancel_selected on the job of base b: when its process has not exited
\* it is terminated and the job is marked failed
GuiCancel(b) ==
  /\ guiOpen
  /\ jobs[b].status # "none" /\ Alive(jobs[b].proc)
  /\ procs' = [procs EXCEPT ![jobs[b].proc].state = "terminated",
                            ![jobs[b].proc].script = <<>>]
  /\ jobs' = [jobs EXCEPT ![b].status = "failed"]
  /\ controls' = ~AnyRunning(jobs')
  /\ UNCHANGED <<encVars, logQueue, history, outDirs, playerJson, watchVars>>

\* _mark_done(b) on the state st: the job, when there is one, becomes done,
\* the controls follow _any_running, and the history record is written
\* when player.json is there
MarkDone(st, b) ==
  IF st.jobs[b].status = "none" THEN st
  ELSE LET js == [st.jobs EXCEPT ![b].status = "done"] IN
       [jobs |-> js,
        controls |-> ~AnyRunning(js),
        history |-> IF b \in playerJson
                    THEN Append(st.history, <<b, js[b].proc>>)
                    ELSE st.history]

\* the loop of _pump_logs over the lines q of the queue
RECURSIVE Pump(_, _)
Pump(q, st) ==
  IF q = <<>> THEN st
  ELSE Pump(Tail(q),
            IF Head(q)[2] = "JOB_DONE" THEN MarkDone(st, Head(q)[1]) ELSE st)

\* _pump_logs, on the timer of the GUI thread: takes every queued line
PumpLogs ==
  /\ guiOpen /\ logQueue # <<>>
  /\ LET st == Pump(logQueue, [jobs |-> jobs, controls |-> controls,
                               history |-> history])
     IN  /\ jobs' = st.jobs
         /\ controls' = st.controls
         /\ history' = st.history
  /\ logQueue' = <<>>
  /\ UNCHANGED <<encVars, procs, outDirs, playerJson, watchVars>>

\* ---------------------------------------------------------- GUI: watcher
\* start_watcher: the options are read off the watcher tab; a resolution
\* must be checked, an output format need not
StartWatcher(hls, dash) ==
  /\ guiOpen /\ wPc = "off"
  /\ wOpts' = [hls |-> hls, dash |-> dash]
  /\ wPc' = "loop"
  /\ UNCHANGED <<encVars, mgrVars, wPath, seen, processed, sizes, enqueued,
                 started, polled>>

\* the file is still being written; only the watcher's loop looks at sizes
SizeChange(f, sz) ==
  /\ wPc = "loop"
  /\ f \in FolderFiles \ processed /\ sz \in Sizes \ {sizes[f]}
  /\ sizes' = [sizes EXCEPT ![f] = sz]
  /\ UNCHANGED <<encVars, mgrVars, wOpts, wPc, wPath, seen, processed,
                 enqueued, started, polled>>

\* the latest StableHits + 1 entries of s
Latest(s) ==
  IF Len(s) <= StableHits + 1 THEN s
  ELSE SubSeq(s, Len(s) - StableHits, Len(s))

\* a plausible slip: a changed size does not restart the count
NextRecKeepHits(rec, sz) == [size |-> sz, hits |-> rec.hits + 1]

\* the record of a file after a poll that found the size sz
NextRec(rec, sz) ==
  IF sz = rec.size THEN [rec EXCEPT !.hits = @ + 1]
  ELSE [size |-> sz, hits |-> 1]

\* one pass of the loop body of run() for the file f
WatcherVisit(f) ==
  /\ wPc = "loop" /\ f \in FolderFiles \ processed
  /\ IF Base(f) \in outDirs
     THEN /\ processed' = processed \cup {f}
          /\ UNCHANGED <<wPc, wPath, seen, enqueued, polled>>
     ELSE LET rec == NextRec(seen[f], sizes[f]) IN
          /\ seen' = [seen EXCEPT ![f] = rec]
          /\ polled' = [polled EXCEPT ![f] = Latest(Append(@, sizes[f]))]
          /\ IF rec.hits >= StableHits
             THEN /\ processed' = processed \cup {f}
                  /\ enqueued' = [enqueued EXCEPT ![f] = @ + 1]
                  /\ wPc' = "check"
                  /\ wPath' = f
             ELSE UNCHANGED <<processed, enqueued, wPc, wPath>>
  /\ UNCHANGED <<encVars, mgrVars, wOpts, sizes, started>>

\* _start_job_for_path on the watcher thread, its first test: refused
\* while the job of that base is running
WatcherCheck ==
  /\ wPc = "check"
  /\ wPc' = IF jobs[Base(wPath)].status = "running" THEN "loop" ELSE "spawn"
  /\ UNCHANGED <<encVars, mgrVars, wOpts, wPath, seen, processed, sizes,
                 enqueued, started, polled>>

\* the rest of _start_job_for_path on the watcher thread: refused without
\* an output format; Popen may raise; else the process is spawned and
\* recorded as the job of the base
WatcherSpawn(raises, script) ==
  /\ wPc = "spawn"
  /\ raises \in BOOLEAN /\ script \in {OkScript} \cup FailScripts
  /\ IF ~(wOpts.hls \/ wOpts.dash) \/ raises
     THEN UNCHANGED <<mgrVars, started>>
     ELSE /\ Len(procs) < MaxProcs
          /\ procs' = Popen(Base(wPath), script)
          /\ jobs' = [jobs EXCEPT ![Base(wPath)] =
                        [status |-> "running", proc |-> Len(procs) + 1]]
          /\ controls' = FALSE
          /\ started' = started \cup {wPath}
          /\ UNCHANGED <<logQueue, history, outDirs, playerJson>>
  /\ wPc' = "loop"
  /\ UNCHANGED <<encVars, wOpts, wPath, seen, processed, sizes, enqueued,
                 polled>>

\* the GUI with its queue and its watcher, no job started yet
InitGui ==
  /\ runs = {}
  /\ args = [r \in RunIds |-> IdleArgs]
  /\ pc = [r \in RunIds |-> "idle"]
  /\ InitCommon
  /\ TrIdle

NextGui ==
  \/ \E path \in QueuePaths : \E script \in {OkScript} \cup FailScripts :
       GuiStart(path, script)
  \/ \E p \in 1..MaxProcs : ProcStep(p) \/ ProcExit(p)
  \/ \E b \in Bases : GuiCancel(b)
  \/ PumpLogs
  \/ \E hls \in BOOLEAN : \E dash \in BOOLEAN : StartWatcher(hls, dash)
  \/ \E f \in FolderFiles : \E sz \in Sizes : SizeChange(f, sz)
  \/ \E f \in FolderFiles : WatcherVisit(f)
  \/ WatcherCheck
  \/ \E raises \in BOOLEAN : \E script \in {OkScript} \cup FailScripts :
       WatcherSpawn(raises, script)

SpecGui == InitGui /\ [][NextGui]_vars

\* the watcher and what it can see of the jobs: the processes started for
\* the watched file by it or from the queue, and the job directory they make
NextWatch ==
  \/ \E path \in QueuePaths : \E script \in {OkScript} \cup FailScripts :
       GuiStart(path, script)
  \/ \E p \in 1..MaxProcs : ProcStep(p)
  \/ \E hls \in BOOLEAN : \E dash \in BOOLEAN : StartWatcher(hls, dash)
  \/ \E f \in FolderFiles : \E sz \in Sizes : SizeChange(f, sz)
  \/ \E f \in FolderFiles : WatcherVisit(f)
  \/ WatcherCheck
  \/ \E raises \in BOOLEAN : \E script \in {OkScript} \cup FailScripts :
       WatcherSpawn(raises, script)

SpecWatch == InitGui /\ [][NextWatch]_vars

\* ----------------------------------------------------------------- claims
Count(seq, x) == Cardinality({i \in DOMAIN seq : seq[i] = x})

Printed(r, line) == \E i \in DOMAIN out[r] : out[r][i] = line

\* the rewrite or the directory moves of run r raised and were abandoned
RewriteWarned(r) == Printed(r, "[dash] mpd rewrite warn")

\* the output of a run whose packager encoder exited nonzero ends with the
\* packager's start line, the command line run printed and the error line
EncoderFailed(r, startLine) ==
  /\ Len(out[r]) >= 3
  /\ SubSeq(out[r], Len(out[r]) - 2, Len(out[r])) = <<startLine, "cmd", "Error">>

HlsFailed(r) == EncoderFailed(r, "[hls] start")
DashFailed(r) == EncoderFailed(r, "[dash] start")

\* C1: a nonzero exit of a packager's encoder aborts the job: after an HLS
\* encoder failure there is no master playlist and the DASH packager was
\* never started; after a failure of either encoder neither sidecar was
\* written, JOB_DONE was not printed and the process has exited nonzero.
C1_EncoderFailureAborts ==
  \A r \in runs :
    /\ HlsFailed(r) =>
         /\ hlsMaster = <<>>
         /\ ~Printed(r, "[dash] start")
         /\ Count(spawned[r], "dash_encoder") = 0
         /\ ~dashExists
    /\ (HlsFailed(r) \/ DashFailed(r)) =>
         /\ \A p \in SidecarPaths : files[p] = 0
         /\ ~Printed(r, "JOB_DONE")
         /\ pc[r] = "exited"
         /\ exitCode[r] > 0

C1_Witness ==
  \E r \in runs : HlsFailed(r) /\ pc[r] = "exited" /\ Len(targets[r]) = 2

\* C2: JOB_DONE is printed at most once, as the last line of the run, only
\* after every requested packager's encoder exited 0 and job.json and
\* player.json hold the complete content this run wrote; a consumer that
\* reads player.json on JOB_DONE finds that complete content.
C2_JobDoneLast ==
  \A r \in runs :
    /\ Count(out[r], "JOB_DONE") <= 1
    /\ Printed(r, "JOB_DONE") =>
         /\ out[r][Len(out[r])] = "JOB_DONE"
         /\ args[r].hls => "hls" \in sources[r] /\ Printed(r, "[hls] done")
         /\ args[r].dash => "dash" \in sources[r] /\ Printed(r, "[dash] done")
         /\ ~Printed(r, "Error")
         /\ Observe("job.json") = r
         /\ Observe("player.json") = r
         /\ files["job.json.tmp"] = 0 /\ files["player.json.tmp"] = 0
    /\ consumed[r] \in {0, r}

C2_Witness ==
  \E r \in runs : consumed[r] = r /\ sources[r] = {"hls", "dash"}

\* C3: a reader of job.json or player.json at its final path observes
\* either no file or the complete content of one write_json call, whatever
\* the interleaving with the runs writing into the job directory.
C3_NoPartialRead == lastRead # -2

\* C4: a requested packager launches exactly one encoder process whatever
\* the ladder size, and a packager that was not started launches none.
C4_OneEncoderPerPackager ==
  \A r \in runs :
    /\ Count(spawned[r], "hls_encoder") =
         (IF Printed(r, "[hls] start") THEN 1 ELSE 0)
    /\ Count(spawned[r], "dash_encoder") =
         (IF Printed(r, "[dash] start") THEN 1 ELSE 0)

C4_Witness ==
  \E r \in runs : Len(targets[r]) = 2 /\ sources[r] = {"hls", "dash"}

\* C5: the ladder is strictly descending by height, for every requested
\* list and either policy.
C5_StrictlyDescending ==
  \A r \in runs :
    \A i \in 1..(Len(targets[r]) - 1) : targets[r][i].h > targets[r][i + 1].h

\* C6: in source mode with src_h > 0 every rendition has the canonical
\* height and bitrate of a requested key and an even width within one
\* pixel column of height * src_w / src_h.
C6_WidthWithinOne ==
  \A r \in runs :
    (args[r].mode = "source" /\ src[r][2] > 0) =>
      \A i \in DOMAIN targets[r] :
        LET t == targets[r][i]
            d == t.w * src[r][2] - t.h * src[r][1]
        IN  /\ \E j \in DOMAIN args[r].renditions :
                 /\ args[r].renditions[j] \in ResKeys
                 /\ t.h = RES_MAP[args[r].renditions[j]][2]
                 /\ t.br = RES_MAP[args[r].renditions[j]][3]
            /\ t.w % 2 = 0
            /\ d <= src[r][2] /\ -d <= src[r][2]

\* C7: a run none of whose requested keys is valid exits with code 3 and
\* has created no output directory.
NoValidKey(r) ==
  \A j \in DOMAIN args[r].renditions : args[r].renditions[j] \notin ResKeys

C7_EmptyLadderNoDirs ==
  \A r \in runs :
    (args[r].inputExists /\ NoValidKey(r) /\ pc[r] = "exited") =>
      /\ exitCode[r] = 3
      /\ ~workdirExists /\ ~hlsExists /\ ~dashExists

\* C8: a run whose input does not exist spawns no subprocess and exits
\* with code 2.
C8_MissingInput ==
  \A r \in runs :
    ~args[r].inputExists =>
      /\ spawned[r] = <<>>
      /\ pc[r] \in {"start", "exited"}
      /\ pc[r] = "exited" => exitCode[r] = 2

C8_Witness ==
  \E r \in runs : ~args[r].inputExists /\ pc[r] = "exited" /\ exitCode[r] = 2

\* C9: the master playlist has one stream entry per ladder rendition, in
\* ladder order, with BANDWIDTH = bitrate + 128000 and RESOLUTION = width x
\* height, each followed by the path <height>/index.m3u8.
C9_MasterPlaylist ==
  \A r \in runs :
    "hls" \in sources[r] =>
      LET ts == targets[r] IN
      /\ Count([i \in DOMAIN hlsMaster |-> hlsMaster[i].tag],
               "#EXT-X-STREAM-INF") = Len(ts)
      /\ Len(hlsMaster) = 2 + 2 * Len(ts)
      /\ \A i \in DOMAIN ts :
           /\ hlsMaster[2 * i + 1].tag = "#EXT-X-STREAM-INF"
           /\ hlsMaster[2 * i + 1].bw = RES_MAP[ts[i].h][3] + 128000
           /\ hlsMaster[2 * i + 1].w = ts[i].w
           /\ hlsMaster[2 * i + 1].h = ts[i].h
           /\ hlsMaster[2 * i + 2].tag = "uri"
           /\ hlsMaster[2 * i + 2].uri = ts[i].h
      /\ \A i \in 1..(Len(ts) - 1) : ts[i].h >= ts[i + 1].h

C9_Witness ==
  \E r \in runs :
    /\ "hls" \in sources[r] /\ Len(targets[r]) = 2
    /\ targets[r][1].h > targets[r][2].h
    /\ args[r].mode = "source" /\ src[r] # <<FallbackW, FallbackH>>

\* C10: after a DASH post-processing that raised no error the i-th video
\* Representation has the i-th ladder height as id and the rendition's
\* width and height, and DASH/<height> exists and holds the segments of
\* that representation.
C10_DashCanonical ==
  \A r \in runs :
    ("dash" \in sources[r] /\ ~RewriteWarned(r)) =>
      \A i \in DOMAIN targets[r] :
        LET t == targets[r][i] IN
        /\ Len(mpd) = Len(targets[r])
        /\ mpd[i].id = t.h /\ mpd[i].w = t.w /\ mpd[i].h = t.h
        /\ t.h \in DOMAIN dashDirs
        /\ DOMAIN dashDirs[t.h] = SegNames
        /\ \A n \in SegNames :
             dashDirs[t.h][n] = <<r, VideoId(i, args[r].media.audio)>>

\* C11: an error raised by the DASH manifest rewrite or by the directory
\* moves is not fatal: the run prints no error, goes on to record
\* sources.dash, and once it has exited it has exit code 0, has printed
\* JOB_DONE and has written job.json and player.json, the latter listing
\* dash.
C11_RewriteErrorNonFatal ==
  \A r \in runs :
    RewriteWarned(r) =>
      /\ ~Printed(r, "Error")
      /\ pc[r] # "dash_end" => "dash" \in sources[r]
      /\ pc[r] = "exited" =>
           /\ exitCode[r] = 0
           /\ out[r][Len(out[r])] = "JOB_DONE"
           /\ Observe("job.json") = r
           /\ Observe("player.json") = r
           /\ "dash" \in playerMeta[r]

C11_Witness ==
  \E r \in runs :
    /\ RewriteWarned(r) /\ pc[r] = "exited"
    /\ \E d \in DOMAIN dashDirs : d \in Heights(targets[r])
    /\ \E i \in DOMAIN mpd : mpd[i].id \notin DOMAIN dashDirs

\* C12: in the player.json of a run that printed JOB_DONE, sources has the
\* key hls exactly when the HLS packager was requested and its encoder
\* exited 0, and the key dash exactly when the DASH packager was requested
\* and its encoder exited 0; a packager that was not started is not listed.
C12_SourcesMatchPackagers ==
  \A r \in runs :
    Printed(r, "JOB_DONE") =>
      /\ Observe("player.json") = r
      /\ "hls" \in playerMeta[r] <=>
           (args[r].hls /\ Printed(r, "[hls] done"))
      /\ "dash" \in playerMeta[r] <=>
           (args[r].dash /\ Printed(r, "[dash] done"))
      /\ playerMeta[r] \subseteq {"hls", "dash"}
      /\ ~Printed(r, "[hls] start") => "hls" \notin playerMeta[r]
      /\ ~Printed(r, "[dash] start") => "dash" \notin playerMeta[r]

C12_Witness ==
  \E r \in runs :
    /\ Printed(r, "JOB_DONE") /\ playerMeta[r] = {"dash"}
    /\ ~Printed(r, "[hls] start")

\* both probes of run r have returned
Probed(r) == Count(spawned[r], "ffprobe") >= 2

\* C15: probing never raises, and whenever a part of probing failed the
\* geometry the job uses is exactly 1920 x 1080 with aspect 16:9.
C15_ProbeFallback ==
  \A r \in runs :
    /\ pc[r] \in {"probe_wh", "probe_dar", "build"} => ~Printed(r, "Error")
    /\ (Probed(r) /\ (args[r].media.w = 0 \/ args[r].media.dar = "")) =>
         /\ src[r] = <<1920, 1080>>
         /\ dar[r] = "16:9"

\* C20: the one DASH encoder command of a ladder of N renditions gives the
\* encoder exactly N video streams and exactly one audio stream, grouped
\* into one video and one audio adaptation set.
C20_DashStreams ==
  \A r \in runs :
    Printed(r, "[dash] start") =>
      LET streams == DashStreams(dashCmd[r].maps, args[r].media.audio) IN
      /\ Count(spawned[r], "dash_encoder") = 1
      /\ Count(streams, "v") = Len(targets[r])
      /\ Count(streams, "a") = 1
      /\ dashCmd[r].adaptation_sets = <<"v", "a">>

\* C16: the jobs of two distinct input files have distinct job directories
\* <outdir>/<base>.
C16_DistinctJobDirs ==
  \A r1 \in runs : \A r2 \in runs \ {r1} :
    (/\ args[r1].input # args[r2].input
     /\ workdir[r1] # <<>> /\ workdir[r2] # <<>>)
      => workdir[r1] # workdir[r2]

\* the translator's input read so far and its output, by kind
IsProgress(e) == e.kind = "PROGRESS"
IsMarker(l) == l.key = "out_time_ms"
IsIntMarker(l) == l.key = "out_time_ms" /\ l.int
NotMarker(l) == l.key # "out_time_ms"
ReadLines == SubSeq(trIn, 1, trPos)
Events == SelectSeq(trOut, IsProgress)
Markers == SelectSeq(ReadLines, IsMarker)
IntMarkers == SelectSeq(ReadLines, IsIntMarker)
PlainLines ==
  LET plain == SelectSeq(trOut, LAMBDA e : ~IsProgress(e))
  IN  [i \in DOMAIN plain |-> plain[i].line]

Abs(x) == IF x < 0 THEN -x ELSE x

\* p hundredths of a percent is clamp(v / t * 100, 0, 100), exactly or to
\* the nearest hundredth
ClampOf(p, v, t, exact) ==
  /\ p \in 0..10000
  /\ IF t = NoTotal \/ t <= 0 THEN p = 0
     ELSE IF v <= 0 THEN p = 0
     ELSE IF v >= t THEN p = 10000
     ELSE IF exact THEN p * t = 10000 * v
     ELSE 2 * Abs(p * t - 10000 * v) <= t

\* C13 as stated: the percent reported for every marker value, negative
\* and beyond the total included, equals clamp(elapsed / total * 100, 0,
\* 100) and lies in [0, 100]; it is 0 when the total is unknown or zero.
C13_PercentExact ==
  \A j \in DOMAIN Events :
    /\ j <= Len(IntMarkers)
    /\ ClampOf(Events[j].pct, IntMarkers[j].val, trProgress.total_ms, TRUE)

\* C13 amended: the percent reported for every marker value, negative and
\* beyond the total included, is clamp(elapsed / total * 100, 0, 100)
\* rounded to two decimals and lies in [0, 100]; it is 0 when the total is
\* unknown or zero.
C13_PercentRounded ==
  \A j \in DOMAIN Events :
    /\ j <= Len(IntMarkers)
    /\ ClampOf(Events[j].pct, IntMarkers[j].val, trProgress.total_ms, FALSE)

C13_Witness ==
  /\ Len(Events) = 2 /\ trProgress.total_ms = 3
  /\ IntMarkers[1].val < 0 /\ IntMarkers[2].val = 1
  /\ Events[2].pct = 3333

\* what C14 says of the events: they carry the job base and the stage
\* label, and the lines that are not markers are printed as they are, in
\* order, so that no other line gives an event
EventsTagged ==
  /\ \A j \in DOMAIN Events :
       /\ Events[j].base = trProgress.base
       /\ Events[j].rend = trProgress.label
  /\ PlainLines = SelectSeq(ReadLines, NotMarker)

SameCourse(r, q) ==
  /\ out[r] = out[q] /\ spawned[r] = spawned[q]
  /\ mapping[r] = mapping[q] /\ moveIdx[r] = moveIdx[q]

\* C18: when the job is run twice on the same input and output directory
\* with identical arguments and both runs take the same course, the second
\* run leaves the same HLS master playlist, the same rewritten DASH
\* manifest and the same set of rendition directories as the first.
C18_SecondRunSameResult ==
  (/\ Printed(1, "JOB_DONE") /\ Printed(2, "JOB_DONE")
   /\ args[1] = args[2] /\ SameCourse(1, 2))
    => endView[2] = endView[1]

C18_Witness ==
  /\ Printed(1, "JOB_DONE") /\ Printed(2, "JOB_DONE")
  /\ args[1] = args[2] /\ SameCourse(1, 2)
  /\ sources[2] = {"hls", "dash"} /\ Len(targets[2]) = 2
  /\ ~RewriteWarned(2)
  /\ endView[2].dashDirs = {1080, 720, 1, 3}

\* C19: after a run into a job directory that holds artifacts of an
\* earlier run, the job directory holds only artifacts of the later run:
\* rendition directories, segments, key files and manifests.
C19_OnlyLatestArtifacts ==
  (Printed(2, "JOB_DONE") /\ pc[2] = "exited" /\ pc[1] = "exited") =>
    /\ \A h \in DOMAIN hlsRend : args[2].hls /\ hlsRend[h] = 2
    /\ hlsMaster # <<>> => args[2].hls
    /\ hlsKeys # {} => args[2].encrypt
    /\ \A d \in DOMAIN dashDirs :
         /\ args[2].dash
         /\ \A n \in DOMAIN dashDirs[d] : dashDirs[d][n][1] = 2
    /\ mpd # <<>> => args[2].dash

\* C17: cancelling a running job asks the job's encoder to terminate and
\* kills it if it does not exit: no encoder of a job whose process was
\* signalled is left running without having been signalled itself.
C17_CancelStopsEncoder ==
  \A r \in runs : signals[r] # <<>> => orphan[r] = "none"


\* the encoder commands a run has built so far
Commands(r) ==
  (IF Printed(r, "[hls] start") THEN {hlsCmd[r]} ELSE {}) \cup
  (IF Printed(r, "[dash] start") THEN {dashCmd[r]} ELSE {})

Distinct(s) == \A i \in DOMAIN s : \A j \in DOMAIN s : s[i] = s[j] => i = j

\* C21: the filter graph built for a ladder of N >= 1 renditions has exactly
\* one split stage, reading the decoded input [0:v], with N branches; branch
\* i scales to the width and height of ladder entry i; and there are N
\* output labels, one per rendition, in ladder order.
C21_FilterGraph ==
  \A r \in runs : \A c \in Commands(r) :
    LET n == Len(targets[r]) IN
    /\ n >= 1
    /\ Len(c.fc.split) = 1
    /\ c.fc.split[1].from = "0:v"
    /\ c.fc.split[1].n = n
    /\ Len(c.fc.split[1].to) = n /\ Distinct(c.fc.split[1].to)
    /\ Len(c.fc.chains) = n
    /\ \A i \in 1..n :
         /\ c.fc.chains[i].from = c.fc.split[1].to[i]
         /\ c.fc.chains[i].w = targets[r][i].w
         /\ c.fc.chains[i].h = targets[r][i].h
    /\ Len(c.labels) = n /\ Distinct(c.labels)
    /\ \A i \in 1..n : c.labels[i] = c.fc.chains[i].to

C21_Witness ==
  \E r \in runs :
    /\ Printed(r, "[hls] start") /\ Printed(r, "[dash] start")
    /\ Len(targets[r]) = 2
    /\ targets[r][1].h # targets[r][2].h
    /\ Len(dashCmd[r].fc.chains) = 2

\* C22: for every rendition of the ladder the HLS command and the DASH
\* command carry the same (bitrate, maxrate, bufsize), with
\* maxrate = bitrate * 1.07 and bufsize = 2 * maxrate.
C22_SameRates ==
  \A r \in runs :
    (Printed(r, "[hls] start") /\ Printed(r, "[dash] start")) =>
      /\ Len(hlsCmd[r].rates) = Len(targets[r])
      /\ Len(dashCmd[r].rates) = Len(targets[r])
      /\ \A i \in 1..Len(targets[r]) :
           /\ hlsCmd[r].rates[i] = dashCmd[r].rates[i]
           /\ dashCmd[r].rates[i].br = targets[r][i].br
           /\ dashCmd[r].rates[i].maxrate * 100 = targets[r][i].br * 107
           /\ dashCmd[r].rates[i].bufsize = 2 * dashCmd[r].rates[i].maxrate

C22_Witness ==
  \E r \in runs :
    /\ Printed(r, "[hls] start") /\ Printed(r, "[dash] start")
    /\ Len(targets[r]) = 2
    /\ hlsCmd[r].rates[2].maxrate > hlsCmd[r].rates[2].br
    /\ dashCmd[r].rates[1].bufsize = 2 * dashCmd[r].rates[1].maxrate


\* C23: when the DASH rewrite step fails, the manifest still carries the
\* numeric representation ids the encoder wrote and every numeric segment
\* directory still exists under its numeric name.
C23_RewriteFailureLeavesNative ==
  \A r \in runs :
    RewriteWarned(r) =>
      /\ mpd = EncodedReps(r)
      /\ StreamIds(r) \subseteq DOMAIN dashDirs


\* the renaming loop of run r handles the pair at moveIdx in this step
Moves(r) ==
  /\ pc[r] = "dash_move" /\ moveIdx[r] <= Len(mapping[r])
  /\ moveIdx'[r] = moveIdx[r] + 1

\* C24: for each (numeric id, height) pair whose numeric directory exists,
\* the directory is renamed to DASH/<height> when that does not exist, and
\* otherwise its files are moved to the same names under DASH/<height> and
\* it is removed; either way every file it held is under DASH/<height>
\* afterwards and the numeric directory is gone.
C24_MovePair ==
  [][\A r \in runs :
       Moves(r) =>
         LET rid == mapping[r][moveIdx[r]][1]
             h == mapping[r][moveIdx[r]][2]
         IN  rid \in DOMAIN dashDirs =>
               /\ rid \notin DOMAIN dashDirs'
               /\ h \in DOMAIN dashDirs'
               /\ \A f \in DOMAIN dashDirs[rid] :
                    /\ f \in DOMAIN dashDirs'[h]
                    /\ dashDirs'[h][f] = dashDirs[rid][f]
               /\ h \notin DOMAIN dashDirs => dashDirs'[h] = dashDirs[rid]
               /\ h \in DOMAIN dashDirs =>
                    \A f \in DOMAIN dashDirs[h] \ DOMAIN dashDirs[rid] :
                      /\ f \in DOMAIN dashDirs'[h]
                      /\ dashDirs'[h][f] = dashDirs[h][f]]_vars

\* the second run has just moved its first directory into the DASH/<height>
\* the first run had made by renaming
C24_Witness ==
  /\ pc[2] = "dash_move" /\ moveIdx[2] = 2
  /\ LET rid == mapping[2][1][1]
         h == mapping[2][1][2]
     IN  /\ h \in endView[1].dashDirs
         /\ h \in DOMAIN dashDirs /\ rid \notin DOMAIN dashDirs
         /\ \A f \in SegNames : dashDirs[h][f] = <<2, rid>>


\* C30: after the DASH directory renaming each height-named directory holds
\* exactly the segments of the one representation rewritten to that height,
\* whatever ids the encoder gave the representations.
C30_OneRepresentationPerDir ==
  \A r \in runs :
    (Printed(r, "[dash] done") /\ ~RewriteWarned(r)) =>
      \A i \in DOMAIN mapping[r] :
        LET rid == mapping[r][i][1]
            h == mapping[r][i][2]
        IN  /\ h \in DOMAIN dashDirs
            /\ dashDirs[h] = SegmentsOf(r, rid)


\* a line of the job of base b is on the log queue
Queued(b) == \E i \in DOMAIN logQueue : logQueue[i][1] = b

\* C25: once the encode process of a job has exited, with any exit code
\* and with or without JOB_DONE, and its output has been drained, the job
\* is done or failed, and the controls are enabled when no job is running.
C25_JobLeavesRunning ==
  \A b \in Bases :
    (jobs[b].status # "none" /\ ~Alive(jobs[b].proc) /\ ~Queued(b)) =>
      /\ jobs[b].status \in {"done", "failed"}
      /\ ~AnyRunning(jobs) => controls

AliveOf(b) == {p \in DOMAIN procs : procs[p].base = b /\ Alive(p)}

\* C26: at any time at most one encode process is alive for a base name.
C26_OneProcessPerBase == \A b \in Bases : Cardinality(AliveOf(b)) <= 1

\* the job of base b is failed because it was cancelled
Cancelled(b) ==
  jobs[b].status = "failed" /\ procs[jobs[b].proc].state = "terminated"

\* C27: a job that is failed through cancellation stays failed and gets no
\* history record, whatever is still on the log queue.
C27_CancelledStaysFailed ==
  [][\A b \in Bases :
       (Cancelled(b) /\ jobs'[b].proc = jobs[b].proc) =>
         /\ jobs'[b].status = "failed"
         /\ \A i \in DOMAIN history' :
              history'[i] = <<b, jobs[b].proc>> => i \in DOMAIN history]_vars

\* the latest StableHits polls of f found one and the same size
Stable(f, obs) ==
  /\ Len(obs) >= StableHits
  /\ \A i \in (Len(obs) - StableHits + 1)..Len(obs) : obs[i] = obs[Len(obs)]

\* C28: during one watcher run a file is enqueued at most once, and only
\* when its size was the same in the latest 3 polls; a poll that finds
\* another size restarts the count at 1; and a file whose output directory
\* exists is marked processed without being enqueued, then or later.
C28_StableThenEnqueue ==
  [][\A f \in FolderFiles :
       /\ enqueued'[f] <= 1
       /\ enqueued'[f] > enqueued[f] =>
            /\ Stable(f, polled'[f])
            /\ Base(f) \notin outDirs
            /\ f \notin processed
       /\ (seen'[f] # seen[f] /\ sizes[f] # seen[f].size) =>
            seen'[f].hits = 1
       /\ (f \in processed' /\ f \notin processed /\ Base(f) \in outDirs) =>
            enqueued'[f] = enqueued[f]
       /\ f \in processed =>
            f \in processed' /\ enqueued'[f] = enqueued[f]]_vars

\* a file enqueued after a poll that found another size and three polls
\* that found the same
C28_Witness ==
  \E f \in FolderFiles :
    /\ enqueued[f] = 1
    /\ Len(polled[f]) = StableHits + 1
    /\ polled[f][1] # polled[f][2]
    /\ Stable(f, polled[f])

\* C29: a file without output directory whose start request was refused or
\* failed is offered again on a later poll: it is not among the processed
\* paths, which the watcher never looks at again.
C29_RefusedIsOfferedAgain ==
  \A f \in FolderFiles :
    (/\ f \in processed /\ Base(f) \notin outDirs
     /\ ~(wPc \in {"check", "spawn"} /\ wPath = f)) => f \in started

====
